---- MODULE Spec2Model ----
(***************************************************************************)
(* Resilient email service: EmailService (the coordinator) with its        *)
(* RateLimiter, IdempotencyService, CircuitBreaker (one per provider),     *)
(* RetryMechanism and the providers' send calls.                           *)
(*                                                                         *)
(* Node runs one synchronous segment at a time; a segment ends at an await *)
(* that really suspends (a timer, a provider's send).  Each action below   *)
(* is one such segment, from the wake-up to the next suspension.           *)
(*                                                                         *)
(* Time is counted in ticks and advances only between segments (Tick).     *)
(* Every stored timestamp is held relative to the clock: Tick re-bases the *)
(* clock so that Date.now() reads 0 again and moves every stored timestamp *)
(* one tick into the past.  A timestamp stops moving once it is so old (or *)
(* a timer once it is due) that no comparison in the code can tell it from *)
(* an older one.                                                           *)
(***************************************************************************)
EXTENDS Integers, Sequences, FiniteSets, TLC

----------------------------------------------------------------------------
(* Bounds of the model *)

\* number of sendEmail calls
NumTasks == 2
\* concurrent direct callers of one CircuitBreaker (SpecCB)
NumCallers == 2
\* failures one CircuitBreaker counts before its callers stop failing (SpecCB)
MaxFailures == 4
\* calls of EmailQueue.enqueue (SpecQueue)
MaxEnqueues == 2
\* chains of processNext alive at a time (SpecQueue, SpecDrain)
NumLoops == 2
\* the attempts getNextRetryDelay is asked about (SpecDelay)
MaxAsked == 4

(* Configuration (EmailServiceConfig), times in ticks *)

maxAttempts == 2
initialDelay == 1
maxDelay == 2
backoffMultiplier == 2
maxRequests == 1
timeWindow == 2
failureThreshold == 2
recoveryTimeout == 2

(* IdempotencyService.waitForPendingRequest's constants, in ticks *)
maxWaitTime == 2
checkInterval == 1

----------------------------------------------------------------------------
(* Values *)

Tasks == 1..NumTasks
Callers == 1..NumCallers

\* config.providers, in configuration order
providers == <<"A", "B">>
ProviderIdx == 1..Len(providers)
ProviderNames == {providers[i] : i \in ProviderIdx}

\* an absent Date (lastFailureTime?: Date)
NoTime == 0 - 1000

\* an absent userId
NoUser == "undefined"
Users == {NoUser, "user123"}
KeyUsers == {NoUser, "user123", "user456"}

\* EmailData: recipients are numbered in their lexicographic order.
\* Emails, the messages of Spec, is the one message of the service's tests,
\* which with and without a userId gives two dedup keys; KeyEmails, the
\* messages of SpecKey, adds the same message with its recipients in the
\* other order and a message with another subject
Emails == { [to |-> <<2, 1>>, subject |-> 1] }
KeyEmails == Emails \cup { [to |-> <<1, 2>>, subject |-> 1],
                           [to |-> <<2, 1>>, subject |-> 2] }
NoEmail == [to |-> << >>, subject |-> 0]

\* an absent EmailResult (EmailStatus.result?: EmailResult)
NoResult == [success |-> FALSE, messageId |-> 0, error |-> "", provider |-> ""]

\* Date.now(), the origin of the re-based clock
now == 0

VARIABLES
  statusTracking,    \* EmailService.statusTracking: id -> EmailStatus
  tasks,             \* per sendEmail call: the frame of its processEmail
  requests,          \* RateLimiter.requests
  cache,             \* IdempotencyService.cache: key -> EmailResult
  pendingRequests,   \* IdempotencyService.pendingRequests
  circuitBreakers,   \* EmailService.circuitBreakers: name -> CircuitBreaker
  okSends,           \* history: key -> successful sends since the last clear
  clearedUpTo,       \* history: sendEmail calls made before the last clearCache
  callers,           \* SpecCB: direct callers of CircuitBreaker.execute
  streak,            \* SpecCB history: failed executes since the last
                     \* successful one (or reset)
  lastCall,          \* SpecCB history: when execute was last called
  rlCallers,         \* SpecRL: direct callers of the RateLimiter
  rlLast,            \* SpecRL history: the last RateLimiter call and its result
  lastAdmit,         \* SpecRL history: when acquire last returned true
  retryRuns,         \* SpecRetry: direct calls of RetryMechanism.execute
  retryLast,         \* history: the last call of getNextRetryDelay, the
                     \* configuration of its RetryMechanism and its result
  queue,             \* EmailQueue.queue
  processing,        \* EmailQueue.processing
  processor,         \* EmailQueue.processor
  loops,             \* the chains of EmailQueue.processNext
  enqueued,          \* SpecQueue: calls of EmailQueue.enqueue so far
  qLast              \* history: the last startProcessing call and its outcome

cbVars == <<callers, streak, lastCall>>

rlVars == <<rlCallers, rlLast, lastAdmit>>

\* the state of the specifications of single components
queueVars == <<queue, processing, processor, loops, enqueued, qLast>>

extVars == <<rlVars, retryRuns, retryLast, queueVars>>

\* the service's own state but the rate limiter's
svcVars == <<statusTracking, tasks, cache, pendingRequests, circuitBreakers,
             okSends, clearedUpTo>>

vars == <<statusTracking, tasks, requests, cache, pendingRequests,
          circuitBreakers, okSends, clearedUpTo, cbVars, extVars>>

----------------------------------------------------------------------------
(* IdempotencyService.generateKey *)

RECURSIVE Insert(_, _)
Insert(x, s) ==
  IF s = << >> THEN <<x>>
  ELSE IF x <= Head(s) THEN <<x>> \o s
  ELSE <<Head(s)>> \o Insert(x, Tail(s))

\* Array.prototype.sort on the recipients
RECURSIVE Sort(_)
Sort(s) == IF s = << >> THEN << >> ELSE Insert(Head(s), Sort(Tail(s)))

\* the number a sequence of recipients stands for (injective on 1..9)
RECURSIVE Encode(_)
Encode(s) == IF s = << >> THEN 0 ELSE Head(s) + 10 * Encode(Tail(s))

UserCode(u) == IF u = NoUser THEN 0 ELSE IF u = "user123" THEN 1 ELSE 2

\* the 32-bit string hash of the JSON text, taken as collision-free: an
\* injective code of the serialized fields {to (sorted), subject, userId}
Hash(email, userId) ==
  1 + UserCode(userId) + 3 * email.subject + 100 * Encode(Sort(email.to))

generateKey(email, idempotencyKey, userId) ==
  IF idempotencyKey # NoUser
    THEN [ns |-> "idempotency", hash |-> 0, id |-> idempotencyKey]
    ELSE [ns |-> "email", hash |-> Hash(email, userId),
          id |-> IF userId = NoUser THEN "anonymous" ELSE userId]

\* sendEmail's call: generateKey(email, userId), userId in the place of
\* the explicit idempotencyKey; the third argument is never passed
sendEmailKey(email, userId) == generateKey(email, userId, NoUser)

\* email.to.sort() sorts the caller's array in place
emailAfterKey(email, idempotencyKey) ==
  IF idempotencyKey # NoUser THEN email ELSE [email EXCEPT !.to = Sort(@)]

----------------------------------------------------------------------------
(* CircuitBreaker *)

CBNew == [state |-> "CLOSED", failureCount |-> 0,
          lastFailureTime |-> NoTime, nextAttemptTime |-> NoTime]

\* shouldAttemptReset comparing with > in place of >=
shouldAttemptResetLate(cb, t) ==
  IF cb.nextAttemptTime = NoTime THEN FALSE ELSE t > cb.nextAttemptTime

shouldAttemptReset(cb, t) ==
  IF cb.nextAttemptTime = NoTime THEN FALSE ELSE t >= cb.nextAttemptTime

\* execute without its OPEN check
cbAdmitsAlways(cb, t) == TRUE

\* execute's entry: TRUE when the operation is invoked
cbAdmits(cb, t) == cb.state # "OPEN" \/ shouldAttemptReset(cb, t)

\* the record after execute's entry check
cbEnter(cb, t) ==
  IF cb.state = "OPEN" /\ shouldAttemptReset(cb, t)
    THEN [cb EXCEPT !.state = "HALF_OPEN"]
    ELSE cb

onSuccess(cb) == CBNew

\* onFailure comparing with > in place of >=
onFailureLate(cb, t) ==
  LET n == cb.failureCount + 1 IN
  IF n > failureThreshold
    THEN [state |-> "OPEN", failureCount |-> n,
          lastFailureTime |-> t, nextAttemptTime |-> t + recoveryTimeout]
    ELSE [cb EXCEPT !.failureCount = n, !.lastFailureTime = t]

onFailure(cb, t) ==
  LET n == cb.failureCount + 1 IN
  IF n >= failureThreshold
    THEN [state |-> "OPEN", failureCount |-> n,
          lastFailureTime |-> t, nextAttemptTime |-> t + recoveryTimeout]
    ELSE [cb EXCEPT !.failureCount = n, !.lastFailureTime = t]

cbReset(cb) == CBNew

----------------------------------------------------------------------------
(* RetryMechanism *)

RECURSIVE Pow(_, _)
Pow(b, e) == IF e = 0 THEN 1 ELSE b * Pow(b, e - 1)

Min(a, b) == IF a <= b THEN a ELSE b

\* execute comparing with > in place of >=
exhaustedLate(attempt) == attempt > maxAttempts

\* execute's catch: no attempt is left
exhausted(attempt) == attempt >= maxAttempts

\* calculateDelay without Math.min: the delay is never clamped
delayWithNoClamp(config, attempt) ==
  config.initialDelay * Pow(config.backoffMultiplier, attempt - 1)

\* calculateDelay of a RetryMechanism constructed with this configuration
delayWith(config, attempt) ==
  Min(config.initialDelay * Pow(config.backoffMultiplier, attempt - 1),
      config.maxDelay)

\* config.retry of the service
RetryConfig == [initialDelay |-> initialDelay, maxDelay |-> maxDelay,
                backoffMultiplier |-> backoffMultiplier]

calculateDelay(attempt) == delayWith(RetryConfig, attempt)

----------------------------------------------------------------------------
(* RateLimiter *)

\* acquire without its filter: no admission ever leaves the window
purgeNever(reqs, t) == reqs

\* the filter keeping a request that is exactly timeWindow old
purgeLate(reqs, t) == SelectSeq(reqs, LAMBDA ts : t - ts <= timeWindow)

\* requests.filter(timestamp => now - timestamp < timeWindow)
purge(reqs, t) == SelectSeq(reqs, LAMBDA ts : t - ts < timeWindow)

\* acquire comparing with > in place of >=
acquireOkLoose(reqs, t) == Len(purge(reqs, t)) <= maxRequests

\* acquire's verdict and the list it leaves
acquireOk(reqs, t) == Len(purge(reqs, t)) < maxRequests
acquireList(reqs, t) ==
  IF acquireOk(reqs, t) THEN Append(purge(reqs, t), t) ELSE purge(reqs, t)

RECURSIVE SeqMin(_)
SeqMin(s) == IF Len(s) = 1 THEN s[1] ELSE Min(s[1], SeqMin(Tail(s)))

\* waitForSlot's waitTime after a refused acquire
waitTime(reqs, t) == timeWindow - (t - SeqMin(reqs))

----------------------------------------------------------------------------
(* EmailService: status table *)

\* generateUUID: a fresh id per call; the id of the t-th call is t
generateUUID(t) == t

\* the empty string, also the key startQueueProcessing hands to processEmail
NoKey == [ns |-> "", hash |-> 0, id |-> ""]
AllKeys == {sendEmailKey(e, u) : e \in KeyEmails, u \in KeyUsers} \cup {NoKey}

\* updateStatus without its branch for 'failed'
updateStatusNoOutcome(table, emailId, status, result, error) ==
  IF emailId \notin DOMAIN table THEN table
  ELSE [table EXCEPT ![emailId] =
         [status   |-> status,
          attempts |-> IF status = "sending" THEN @.attempts + 1 ELSE @.attempts,
          result   |-> IF status = "sent" /\ result # NoResult THEN result
                       ELSE @.result]]

updateStatus(table, emailId, status, result, error) ==
  IF emailId \notin DOMAIN table THEN table
  ELSE [table EXCEPT ![emailId] =
         [status   |-> status,
          attempts |-> IF status = "sending" THEN @.attempts + 1 ELSE @.attempts,
          result   |-> IF status = "sent" /\ result # NoResult THEN result
                       ELSE IF status = "failed"
                         THEN [success |-> FALSE, messageId |-> 0,
                               error |-> IF error = "" THEN "Unknown error" ELSE error,
                               provider |-> "unknown"]
                       ELSE @.result]]

TaskNew == [pc |-> "idle", email |-> NoEmail, userId |-> NoUser, key |-> NoKey,
            provider |-> 0, attempt |-> 0, wake |-> 0, startTime |-> 0,
            path |-> "", out |-> ""]

CallerNew == [pc |-> "idle", enteredIn |-> "", last |-> "", wasReset |-> FALSE]

\* a caller of the RateLimiter, not in waitForSlot
RlCallerNew == [pc |-> "idle", wake |-> 0]

\* a QueueItem not there
NoItem == [id |-> 0, priority |-> 0, retryCount |-> 0]

\* processor?: undefined
NoProcessor == "undefined"

\* the chains of processNext: a chain is scheduled (its timer is set) or
\* awaits the processor's promise for its item, until it ends
Loops == 1..NumLoops
LoopNew == [pc |-> "ended", item |-> NoItem]

\* no call of RetryMechanism.execute yet: hist is what the operation did at
\* each invocation (the value it returned or the error it threw), out what
\* execute returned or threw
RetryNew == [pc |-> "idle", attempt |-> 0, wake |-> 0, hist |-> << >>, out |-> ""]

\* no RateLimiter call yet
RlNone == [op |-> "", ok |-> FALSE, usage |-> 0, remaining |-> 0, flip |-> FALSE]

Init ==
  /\ statusTracking = << >>
  /\ tasks = [t \in Tasks |-> TaskNew]
  /\ requests = << >>
  /\ cache = << >>
  /\ pendingRequests = {}
  /\ circuitBreakers = [n \in ProviderNames |-> CBNew]
  /\ okSends = [k \in AllKeys |-> 0]
  /\ clearedUpTo = 0
  /\ callers = [c \in Callers |-> CallerNew]
  /\ streak = 0
  /\ lastCall = NoTime
  /\ rlCallers = [c \in Callers |-> RlCallerNew]
  /\ rlLast = RlNone
  /\ lastAdmit = NoTime
  /\ retryRuns = [c \in Callers |-> RetryNew]
  /\ retryLast = [config |-> RetryConfig, attempt |-> 0, delay |-> 0]
  /\ queue = << >>
  /\ processing = FALSE
  /\ processor = NoProcessor
  /\ loops = [l \in Loops |-> LoopNew]
  /\ enqueued = 0
  /\ qLast = [op |-> "", raised |-> FALSE]

----------------------------------------------------------------------------
(* EmailService.sendEmail, up to the first suspension of processEmail *)

\* processEmail going on whatever acquire returned
afterAcquireAlways(tk, reqs, t) == [tk EXCEPT !.pc = "slot"]

\* where a task goes after an acquire at time t
afterAcquire(tk, reqs, t) ==
  IF acquireOk(reqs, t)
    THEN [tk EXCEPT !.pc = "slot"]
    ELSE [tk EXCEPT !.pc = "rlWait",
                    !.wake = t + waitTime(acquireList(reqs, t), t)]

\* sendEmail without its statusTracking.set
sendEmailNoRecord(t, email, userId) ==
  /\ tasks[t].pc = "idle"
  /\ \A u \in Tasks : u < t => tasks[u].pc # "idle"
  /\ LET emailId == generateUUID(t)
         tk == [tasks[t] EXCEPT !.email = emailAfterKey(email, userId),
                                !.userId = userId,
                                !.key = sendEmailKey(email, userId)]
     IN /\ statusTracking' = updateStatus(statusTracking, emailId, "sending", NoResult, "")
        /\ requests' = acquireList(requests, now)
        /\ tasks' = [tasks EXCEPT ![t] = afterAcquire(tk, requests, now)]
  /\ UNCHANGED <<cache, pendingRequests, circuitBreakers, okSends, clearedUpTo, cbVars, extVars>>

sendEmail(t, email, userId) ==
  /\ tasks[t].pc = "idle"
  /\ \A u \in Tasks : u < t => tasks[u].pc # "idle"
  /\ LET emailId == generateUUID(t)
         created == [i \in DOMAIN statusTracking \cup {emailId} |->
                       IF i = emailId
                         THEN [status |-> "pending", attempts |-> 0,
                               result |-> NoResult]
                         ELSE statusTracking[i]]
         tk == [tasks[t] EXCEPT !.email = emailAfterKey(email, userId),
                                !.userId = userId,
                                !.key = sendEmailKey(email, userId)]
     IN /\ statusTracking' = updateStatus(created, emailId, "sending", NoResult, "")
        /\ requests' = acquireList(requests, now)
        /\ tasks' = [tasks EXCEPT ![t] = afterAcquire(tk, requests, now)]
  /\ UNCHANGED <<cache, pendingRequests, circuitBreakers, okSends, clearedUpTo, cbVars, extVars>>

\* RateLimiter.waitForSlot: the timer fired, acquire again
waitForSlot(t) ==
  /\ tasks[t].pc = "rlWait"
  /\ now >= tasks[t].wake
  /\ requests' = acquireList(requests, now)
  /\ tasks' = [tasks EXCEPT ![t] = afterAcquire(@, requests, now)]
  /\ UNCHANGED <<statusTracking, cache, pendingRequests, circuitBreakers,
                 okSends, clearedUpTo, cbVars, extVars>>

----------------------------------------------------------------------------
(* processEmail's end: the status written when the pipeline settles *)

settleSent(t, result) ==
  updateStatus(statusTracking, t, "sent", result, "")

\* processEmail's catch, then sendEmail's .catch: the same update twice
settleFailed(t, error) ==
  updateStatus(updateStatus(statusTracking, t, "failed", NoResult, error),
               t, "failed", NoResult, error)

\* processEmail going on after its last status update
doneStays(tk) == tk

\* the frame is gone: its locals are dropped
done(tk) == [tk EXCEPT !.pc = "done", !.wake = 0, !.startTime = 0,
                       !.provider = 0, !.attempt = 0]

\* processEmail's promise resolves, or rejects with what its catch rethrew
resolved(tk) == [done(tk) EXCEPT !.out = "resolved"]
rejected(tk) == [done(tk) EXCEPT !.out = "rejected"]

----------------------------------------------------------------------------
(* sendWithFallback: the loop over providers, from provider index `from` *)

\* the loop taking the last provider that admits instead of the first
FirstAdmitLast(from, cbs) ==
  LET S == {i \in ProviderIdx : i >= from /\ cbAdmits(cbs[providers[i]], now)}
  IN IF S = {} THEN 0 ELSE CHOOSE i \in S : \A j \in S : i >= j

\* the loop calling the providers without their breakers
FirstAdmitNoBreaker(from, cbs) ==
  IF from <= Len(providers) THEN from ELSE 0

\* the first provider from `from` on whose breaker lets a call through
FirstAdmit(from, cbs) ==
  LET S == {i \in ProviderIdx : i >= from /\ cbAdmits(cbs[providers[i]], now)}
  IN IF S = {} THEN 0 ELSE CHOOSE i \in S : \A j \in S : i <= j

\* execute with the delete after the await instead of in a finally: a
\* thrown operation leaves the key pending
sendWithFallbackNoFinally(t, tk, from, cbs, pend, lastError) ==
  LET q == FirstAdmit(from, cbs)
      err == IF from <= Len(providers) THEN "Circuit breaker is OPEN" ELSE lastError
  IN IF q = 0
       THEN /\ circuitBreakers' = cbs
            /\ pendingRequests' = pend
            /\ statusTracking' = settleFailed(t, err)
            /\ tasks' = [tasks EXCEPT ![t] = rejected(tk)]
       ELSE /\ circuitBreakers' =
                 [cbs EXCEPT ![providers[q]] = cbEnter(@, now)]
            /\ pendingRequests' = pend
            /\ statusTracking' = statusTracking
            /\ tasks' = [tasks EXCEPT ![t] =
                 [tk EXCEPT !.pc = "sending", !.provider = q, !.attempt = 1]]

\* the providers from `from` on are tried in order; an open circuit throws
\* and the loop goes on; the first admitted provider's send is started; with
\* none left sendWithFallback throws, execute's finally clears the pending
\* marker and processEmail records the failure
sendWithFallback(t, tk, from, cbs, pend, lastError) ==
  LET q == FirstAdmit(from, cbs)
      err == IF from <= Len(providers) THEN "Circuit breaker is OPEN" ELSE lastError
  IN IF q = 0
       THEN /\ circuitBreakers' = cbs
            /\ pendingRequests' = pend \ {tk.key}
            /\ statusTracking' = settleFailed(t, err)
            /\ tasks' = [tasks EXCEPT ![t] = rejected(tk)]
       ELSE /\ circuitBreakers' =
                 [cbs EXCEPT ![providers[q]] = cbEnter(@, now)]
            /\ pendingRequests' = pend
            /\ statusTracking' = statusTracking
            /\ tasks' = [tasks EXCEPT ![t] =
                 [tk EXCEPT !.pc = "sending", !.provider = q, !.attempt = 1]]

----------------------------------------------------------------------------
(* IdempotencyService.execute, entered when waitForSlot has returned *)

\* execute without its pendingRequests check
executeBranchNoPending(key) ==
  IF key \in DOMAIN cache THEN "hit" ELSE "run"

\* execute without its cache check
executeBranchNoCache(key) ==
  IF key \in pendingRequests THEN "wait" ELSE "run"

\* which way execute goes for a key
executeBranch(key) ==
  IF key \in DOMAIN cache THEN "hit"
  ELSE IF key \in pendingRequests THEN "wait"
  ELSE "run"

execute(t) ==
  /\ tasks[t].pc = "slot"
  /\ LET key == tasks[t].key
         br == executeBranch(key)
         tk == [tasks[t] EXCEPT !.path = br]
     IN CASE br = "hit" ->
               /\ statusTracking' = settleSent(t, cache[key])
               /\ tasks' = [tasks EXCEPT ![t] = resolved(tk)]
               /\ UNCHANGED <<pendingRequests, circuitBreakers>>
          [] br = "wait" ->
               \* waitForPendingRequest: first pass of the loop, then sleep
               /\ tasks' = [tasks EXCEPT ![t] =
                    [tk EXCEPT !.pc = "dedupWait", !.startTime = now,
                               !.wake = now + checkInterval]]
               /\ UNCHANGED <<statusTracking, pendingRequests, circuitBreakers>>
          [] br = "run" ->
               sendWithFallback(t, tk, 1, circuitBreakers,
                                pendingRequests \cup {key}, "")
  /\ UNCHANGED <<requests, cache, okSends,
                 clearedUpTo, cbVars, extVars>>

\* waitForPendingRequest with while (true): the wait has no ceiling
waitForPendingRequestNoCeiling(t) ==
  /\ tasks[t].pc = "dedupWait"
  /\ now >= tasks[t].wake
  /\ LET key == tasks[t].key IN
     IF key \in DOMAIN cache
       THEN /\ statusTracking' = settleSent(t, cache[key])
            /\ tasks' = [tasks EXCEPT ![t] = resolved(@)]
     ELSE IF key \notin pendingRequests
       THEN /\ statusTracking' =
                 settleFailed(t, "Request failed while waiting for pending operation")
            /\ tasks' = [tasks EXCEPT ![t] = rejected(@)]
     ELSE /\ tasks' = [tasks EXCEPT ![t].wake = now + checkInterval]
          /\ UNCHANGED statusTracking
  /\ UNCHANGED <<requests, cache, pendingRequests, circuitBreakers,
                 okSends, clearedUpTo, cbVars, extVars>>

\* waitForPendingRequest: the poll timer fired
waitForPendingRequest(t) ==
  /\ tasks[t].pc = "dedupWait"
  /\ now >= tasks[t].wake
  /\ LET key == tasks[t].key IN
     IF ~(now - tasks[t].startTime < maxWaitTime)
       THEN /\ statusTracking' =
                 settleFailed(t, "Timeout waiting for pending request")
            /\ tasks' = [tasks EXCEPT ![t] = rejected(@)]
     ELSE IF key \in DOMAIN cache
       THEN /\ statusTracking' = settleSent(t, cache[key])
            /\ tasks' = [tasks EXCEPT ![t] = resolved(@)]
     ELSE IF key \notin pendingRequests
       THEN /\ statusTracking' =
                 settleFailed(t, "Request failed while waiting for pending operation")
            /\ tasks' = [tasks EXCEPT ![t] = rejected(@)]
     ELSE /\ tasks' = [tasks EXCEPT ![t].wake = now + checkInterval]
          /\ UNCHANGED statusTracking
  /\ UNCHANGED <<requests, cache, pendingRequests, circuitBreakers,
                 okSends, clearedUpTo, cbVars, extVars>>

----------------------------------------------------------------------------
(* A provider's send comes back to retryMechanism.execute, inside          *)
(* circuitBreaker.execute, inside sendWithFallback, inside execute         *)

\* `msg_${Date.now()}_${random}`: a fresh id per successful send; a call
\* has at most one successful send, so its own number names it
messageId(t) == t

\* MockEmailProvider.send's two results
sendResult(t, name, success) ==
  IF success
    THEN [success |-> TRUE, messageId |-> messageId(t), error |-> "",
          provider |-> name]
    ELSE [success |-> FALSE, messageId |-> 0, error |-> "SMTP connection failed",
          provider |-> name]

\* sendWithFallback returning whatever the breaker handed back
returnsResultAlways(result) == TRUE

\* sendWithFallback's test of what the breaker handed back: if (result.success)
returnsResult(result) == result.success

\* execute without its cache.set
cacheSetNever(c, key, result) == c

\* execute's cache.set(key, result)
cacheSet(c, key, result) ==
  [k \in DOMAIN c \cup {key} |-> IF k = key THEN result ELSE c[k]]

\* the provider's send returns a result: nothing is thrown, so retry returns
\* it and the breaker records a success.  A success result is returned by
\* sendWithFallback, cached by execute and recorded as sent; with a failure
\* result the loop goes on to the next provider
sendReturns(t, success) ==
  /\ tasks[t].pc = "sending"
  /\ LET key == tasks[t].key
         name == providers[tasks[t].provider]
         result == sendResult(t, name, success)
         cbs == [circuitBreakers EXCEPT ![name] = onSuccess(@)]
     IN /\ okSends' = [okSends EXCEPT ![key] = IF success THEN @ + 1 ELSE @]
        /\ IF returnsResult(result)
             THEN /\ circuitBreakers' = cbs
                  /\ cache' = cacheSet(cache, key, result)
                  /\ pendingRequests' = pendingRequests \ {key}
                  /\ statusTracking' = settleSent(t, result)
                  /\ tasks' = [tasks EXCEPT ![t] = resolved(@)]
             ELSE /\ sendWithFallback(t, tasks[t], tasks[t].provider + 1, cbs,
                                      pendingRequests,
                                      IF result.error = ""
                                        THEN "Provider returned failure"
                                        ELSE result.error)
                  /\ UNCHANGED cache
  /\ UNCHANGED <<requests, clearedUpTo, cbVars, extVars>>

\* the provider's send throws, with the breaker inside the retry: every
\* thrown attempt is a failure of the breaker
sendThrowsEachCounted(t) ==
  /\ tasks[t].pc = "sending"
  /\ LET name == providers[tasks[t].provider]
         cbs == [circuitBreakers EXCEPT ![name] = onFailure(@, now)]
     IN IF exhausted(tasks[t].attempt)
          THEN sendWithFallback(t, tasks[t], tasks[t].provider + 1, cbs,
                                pendingRequests, "send failed")
          ELSE /\ tasks' = [tasks EXCEPT ![t] =
                    [@ EXCEPT !.pc = "retrySleep",
                              !.wake = now + calculateDelay(tasks[t].attempt)]]
               /\ circuitBreakers' = cbs
               /\ UNCHANGED <<pendingRequests, statusTracking>>
  /\ UNCHANGED <<requests, cache, okSends,
                 clearedUpTo, cbVars, extVars>>

\* the provider's send throws, with one breaker state shared by all the
\* providers: the failure is recorded on each of them
sendThrowsShared(t) ==
  /\ tasks[t].pc = "sending"
  /\ IF exhausted(tasks[t].attempt)
       THEN LET cbs == [n \in ProviderNames |-> onFailure(circuitBreakers[n], now)]
            IN sendWithFallback(t, tasks[t], tasks[t].provider + 1, cbs,
                                pendingRequests, "send failed")
       ELSE /\ tasks' = [tasks EXCEPT ![t] =
                 [@ EXCEPT !.pc = "retrySleep",
                           !.wake = now + calculateDelay(tasks[t].attempt)]]
            /\ UNCHANGED <<circuitBreakers, pendingRequests, statusTracking>>
  /\ UNCHANGED <<requests, cache, okSends,
                 clearedUpTo, cbVars, extVars>>

\* the provider's send throws
sendThrows(t) ==
  /\ tasks[t].pc = "sending"
  /\ IF exhausted(tasks[t].attempt)
       THEN LET name == providers[tasks[t].provider]
                cbs == [circuitBreakers EXCEPT ![name] = onFailure(@, now)]
            IN sendWithFallback(t, tasks[t], tasks[t].provider + 1, cbs,
                                pendingRequests, "send failed")
       ELSE /\ tasks' = [tasks EXCEPT ![t] =
                 [@ EXCEPT !.pc = "retrySleep",
                           !.wake = now + calculateDelay(tasks[t].attempt)]]
            /\ UNCHANGED <<circuitBreakers, pendingRequests, statusTracking>>
  /\ UNCHANGED <<requests, cache, okSends,
                 clearedUpTo, cbVars, extVars>>

\* RetryMechanism.execute: the backoff timer fired, send again
retry(t) ==
  /\ tasks[t].pc = "retrySleep"
  /\ now >= tasks[t].wake
  /\ tasks' = [tasks EXCEPT ![t] =
       [@ EXCEPT !.pc = "sending", !.attempt = @ + 1]]
  /\ UNCHANGED <<statusTracking, requests, cache, pendingRequests,
                 circuitBreakers, okSends, clearedUpTo, cbVars, extVars>>

----------------------------------------------------------------------------
(* Administrative operations and the clock *)

\* IdempotencyService.clearCache.  clearedUpTo remembers how many submissions
\* had been made when entries were last dropped (a clear of an empty cache
\* drops nothing)
clearCache ==
  /\ cache' = << >>
  /\ okSends' = [k \in AllKeys |-> 0]
  /\ clearedUpTo' = IF cache = << >> THEN clearedUpTo
                    ELSE Cardinality({t \in Tasks : tasks[t].pc # "idle"})
  /\ UNCHANGED <<statusTracking, tasks, requests, pendingRequests,
                 circuitBreakers, cbVars, extVars>>

resetCircuitBreakers ==
  /\ circuitBreakers' = [n \in ProviderNames |-> cbReset(circuitBreakers[n])]
  /\ UNCHANGED <<statusTracking, tasks, requests, cache, pendingRequests,
                 okSends, clearedUpTo, cbVars, extVars>>

resetRateLimiter ==
  /\ requests' = << >>
  /\ UNCHANGED <<statusTracking, tasks, cache, pendingRequests,
                 circuitBreakers, okSends, clearedUpTo, cbVars, extVars>>

Max(a, b) == IF a >= b THEN a ELSE b

\* a past timestamp one tick later; `floor` is where it stops moving
older(ts, floor) == IF ts = NoTime THEN NoTime ELSE Max(ts - 1, floor)

\* a breaker's timestamps one tick later.  lastFailureTime is only ever
\* printed and nextAttemptTime only compared by now >= nextAttemptTime, so
\* both stop moving once the failure is recoveryTimeout old
tickBreaker(cb) ==
  IF cb.lastFailureTime = NoTime \/ cb.lastFailureTime <= now - recoveryTimeout
    THEN cb
    ELSE [cb EXCEPT !.lastFailureTime = @ - 1,
                    !.nextAttemptTime = IF @ = NoTime THEN NoTime ELSE @ - 1]

\* a task's timers one tick later: a due timer stays due, and a wait that
\* began maxWaitTime ago has timed out whatever its age
tickTask(tk) ==
  [tk EXCEPT !.wake = IF tk.pc \in {"rlWait", "dedupWait", "retrySleep"}
                        THEN Max(@ - 1, now) ELSE @,
             !.startTime = IF tk.pc = "dedupWait"
                             THEN Max(@ - 1, now - maxWaitTime) ELSE @]

\* a backoff timer one tick later: a due timer stays due
tickRetry(r) ==
  [r EXCEPT !.wake = IF r.pc = "sleeping" THEN Max(@ - 1, now) ELSE @]

\* a waitForSlot timer one tick later: a due timer stays due
tickRlCaller(rc) ==
  [rc EXCEPT !.wake = IF rc.pc = "waiting" THEN Max(@ - 1, now) ELSE @]

\* an admission that is timeWindow old is purged whatever its age
tickRequests(reqs) == [i \in DOMAIN reqs |-> Max(reqs[i] - 1, now - timeWindow)]

Tick ==
  /\ requests' = tickRequests(requests)
  /\ circuitBreakers' = [n \in ProviderNames |-> tickBreaker(circuitBreakers[n])]
  /\ tasks' = [t \in Tasks |-> tickTask(tasks[t])]
  /\ lastCall' = older(lastCall, now - 1)
  /\ rlCallers' = [c \in Callers |-> tickRlCaller(rlCallers[c])]
  /\ lastAdmit' = older(lastAdmit, now - timeWindow)
  /\ retryRuns' = [c \in Callers |-> tickRetry(retryRuns[c])]
  /\ UNCHANGED <<statusTracking, cache, pendingRequests, okSends, clearedUpTo,
                 callers, streak, rlLast, retryLast, queueVars>>

\* what the service does once called
Step ==
  \/ \E t \in Tasks : waitForSlot(t)
  \/ \E t \in Tasks : execute(t)
  \/ \E t \in Tasks : waitForPendingRequest(t)
  \/ \E t \in Tasks, success \in BOOLEAN : sendReturns(t, success)
  \/ \E t \in Tasks : sendThrows(t)
  \/ \E t \in Tasks : retry(t)
  \/ clearCache
  \/ resetCircuitBreakers
  \/ resetRateLimiter
  \/ Tick

Next ==
  \/ \E t \in Tasks, e \in Emails, u \in Users : sendEmail(t, e, u)
  \/ Step

Spec == Init /\ [][Next]_vars

----------------------------------------------------------------------------
(* One CircuitBreaker called directly by concurrent callers, as the        *)
(* CircuitBreaker tests call it: execute(op) with op still to settle       *)

\* the breaker under test
CBName == providers[1]

\* execute's entry: the OPEN check, then the operation is invoked
cbExecute(c) ==
  /\ callers[c].pc = "idle"
  /\ lastCall' = now
  /\ LET cb == circuitBreakers[CBName] IN
     IF cbAdmits(cb, now)
       THEN /\ circuitBreakers' = [circuitBreakers EXCEPT ![CBName] = cbEnter(cb, now)]
            /\ callers' = [callers EXCEPT ![c] =
                 [pc |-> "running", enteredIn |-> cb.state, last |-> "",
                  wasReset |-> FALSE]]
       ELSE /\ callers' = [callers EXCEPT ![c] =
                 [CallerNew EXCEPT !.last = "circuit-open"]]
            /\ UNCHANGED circuitBreakers
  /\ UNCHANGED <<statusTracking, tasks, requests, cache, pendingRequests,
                 okSends, clearedUpTo, streak, extVars>>

\* the operation resolves: onSuccess, the result is returned
cbOperationReturns(c) ==
  /\ callers[c].pc = "running"
  /\ circuitBreakers' = [circuitBreakers EXCEPT ![CBName] = onSuccess(@)]
  /\ callers' = [callers EXCEPT ![c] = [@ EXCEPT !.pc = "idle", !.last = "returned"]]
  /\ streak' = 0
  /\ UNCHANGED <<statusTracking, tasks, requests, cache, pendingRequests,
                 okSends, clearedUpTo, lastCall, extVars>>

\* the operation rejects: onFailure, the error is thrown on
cbOperationThrows(c) ==
  /\ callers[c].pc = "running"
  /\ circuitBreakers[CBName].failureCount < MaxFailures
  /\ circuitBreakers' = [circuitBreakers EXCEPT ![CBName] = onFailure(@, now)]
  /\ callers' = [callers EXCEPT ![c] = [@ EXCEPT !.pc = "idle", !.last = "raised"]]
  /\ streak' = streak + 1
  /\ UNCHANGED <<statusTracking, tasks, requests, cache, pendingRequests,
                 okSends, clearedUpTo, lastCall, extVars>>

\* CircuitBreaker.reset; the calls in flight are marked as having seen it
cbResetCall ==
  /\ circuitBreakers' = [circuitBreakers EXCEPT ![CBName] = cbReset(@)]
  /\ callers' = [c \in Callers |->
       IF callers[c].pc = "running" THEN [callers[c] EXCEPT !.wasReset = TRUE]
       ELSE callers[c]]
  /\ streak' = 0
  /\ UNCHANGED <<statusTracking, tasks, requests, cache, pendingRequests,
                 okSends, clearedUpTo, lastCall, extVars>>

NextCB ==
  \/ \E c \in Callers : cbExecute(c)
  \/ \E c \in Callers : cbOperationReturns(c)
  \/ \E c \in Callers : cbOperationThrows(c)
  \/ cbResetCall
  \/ Tick

SpecCB == Init /\ [][NextCB]_vars

----------------------------------------------------------------------------
(* The service called with more messages and users *)

NextKey ==
  \/ \E t \in Tasks, e \in KeyEmails, u \in KeyUsers : sendEmail(t, e, u)
  \/ Step

SpecKey == Init /\ [][NextKey]_vars

----------------------------------------------------------------------------
(* Properties of the coordinator's deduplication *)

\* the op passed to IdempotencyService.execute by call t is in flight
InFlight(t) == tasks[t].pc \in {"sending", "retrySleep"}

Settled(t) == tasks[t].pc = "done"

\* no cache entry has been dropped since call t was made
NoClearSince(t) == t > clearedUpTo

\* C1: for every dedup key at most one op is in flight at any time, and a
\* call that found its key pending (it took the waiting path) never has an
\* op of its own in flight
SingleFlight ==
  /\ \A t1, t2 \in Tasks :
       (t1 # t2 /\ InFlight(t1) /\ InFlight(t2)) => tasks[t1].key # tasks[t2].key
  /\ \A t \in Tasks : tasks[t].path = "wait" => ~InFlight(t)

\* an op in flight while another call with the same key waits for it
SingleFlightWitness ==
  \E t1, t2 \in Tasks :
    /\ InFlight(t1)
    /\ tasks[t2].pc = "dedupWait"
    /\ tasks[t1].key = tasks[t2].key

\* C2 as stated: two settled calls with the same dedup key and no clear in
\* between have recorded outcomes with equal message identifiers
SameIdsWhenSettled ==
  \A t1, t2 \in Tasks :
    (/\ t1 < t2 /\ Settled(t1) /\ Settled(t2)
     /\ tasks[t1].key = tasks[t2].key
     /\ NoClearSince(t1))
    => statusTracking[t1].result.messageId = statusTracking[t2].result.messageId

\* C2 amended: two calls with the same dedup key and no clear in between
\* that have both settled as sent have recorded outcomes with equal message
\* identifiers
SameIdsWhenSent ==
  \A t1, t2 \in Tasks :
    (/\ t1 < t2 /\ Settled(t1) /\ Settled(t2)
     /\ tasks[t1].key = tasks[t2].key
     /\ NoClearSince(t1)
     /\ statusTracking[t1].status = "sent"
     /\ statusTracking[t2].status = "sent")
    => statusTracking[t1].result.messageId = statusTracking[t2].result.messageId

\* two calls with one key, both sent, the later one without a send of its own
SameIdsWitness ==
  \E t1, t2 \in Tasks :
    /\ t1 < t2 /\ Settled(t1) /\ Settled(t2)
    /\ tasks[t1].key = tasks[t2].key
    /\ NoClearSince(t1)
    /\ statusTracking[t1].status = "sent"
    /\ statusTracking[t2].status = "sent"
    /\ tasks[t2].path = "wait"

\* C3: between clears every dedup key has at most one successful backend
\* send, and while a success is cached for a key no op is in flight for it
AtMostOnce ==
  /\ \A k \in AllKeys : okSends[k] <= 1
  /\ \A t \in Tasks : InFlight(t) => tasks[t].key \notin DOMAIN cache

\* a second call served from the cache after the one successful send
AtMostOnceWitness ==
  \E t1, t2 \in Tasks :
    /\ t1 # t2
    /\ tasks[t1].key = tasks[t2].key
    /\ Settled(t1) /\ tasks[t1].path = "run"
    /\ Settled(t2) /\ tasks[t2].path = "hit"
    /\ okSends[tasks[t1].key] = 1

SameContent(e1, e2) == Sort(e1.to) = Sort(e2.to) /\ e1.subject = e2.subject

\* C4 as stated: two calls by the same user whose contents differ have
\* different dedup keys, and the later one is not recorded as sent with the
\* earlier one's outcome
ContentKeyed ==
  \A t1, t2 \in Tasks :
    (/\ t1 < t2
     /\ tasks[t1].pc # "idle" /\ tasks[t2].pc # "idle"
     /\ tasks[t1].userId = tasks[t2].userId
     /\ ~SameContent(tasks[t1].email, tasks[t2].email))
    => /\ tasks[t1].key # tasks[t2].key
       /\ ~(/\ statusTracking[t2].status = "sent"
            /\ statusTracking[t2].result.messageId = messageId(t1))

\* C5: every cache entry is a success, and a call about to enter execute is
\* kept from running the pipeline only by a cached success or by an op in
\* flight for its key, never by a failure that went before
NeverMemoized ==
  /\ \A k \in DOMAIN cache : cache[k].success
  /\ \A t \in Tasks :
       (tasks[t].pc = "slot" /\ executeBranch(tasks[t].key) # "run")
       => \/ (tasks[t].key \in DOMAIN cache /\ cache[tasks[t].key].success)
          \/ \E u \in Tasks : InFlight(u) /\ tasks[u].key = tasks[t].key

\* after a dispatch that failed on every provider, a later call with the
\* same key has the pipeline running again
NeverMemoizedWitness ==
  \E t1, t2 \in Tasks :
    /\ t1 < t2
    /\ tasks[t1].key = tasks[t2].key
    /\ Settled(t1) /\ tasks[t1].path = "run"
    /\ statusTracking[t1].status = "failed"
    /\ InFlight(t2) /\ tasks[t2].path = "run"

----------------------------------------------------------------------------
(* Properties of one CircuitBreaker *)

\* C6: below failureThreshold consecutive failures the breaker is CLOSED
\* and counts them, and the failure that makes them failureThreshold leaves
\* it OPEN with failureCount = failureThreshold, lastFailureTime the time of
\* that failure and nextAttemptTime recoveryTimeout later
OpensAtThreshold ==
  [][LET cb == circuitBreakers'[CBName] IN
     /\ streak' < failureThreshold =>
          (cb.state = "CLOSED" /\ cb.failureCount = streak')
     /\ (streak = failureThreshold - 1 /\ streak' = failureThreshold) =>
          /\ cb.state = "OPEN"
          /\ cb.failureCount = failureThreshold
          /\ cb.lastFailureTime = now
          /\ cb.nextAttemptTime = now + recoveryTimeout]_vars

\* the breaker just opened by its failureThreshold-th consecutive failure
OpensAtThresholdWitness ==
  /\ streak = failureThreshold
  /\ circuitBreakers[CBName].state = "OPEN"
  /\ circuitBreakers[CBName].lastFailureTime = now
  /\ \E c \in Callers : callers[c].last = "raised"

\* C7: an execute call made while OPEN and before nextAttemptTime fails with
\* the circuit-open error, its operation is not invoked and the breaker is
\* left as it was
FailFast ==
  [][\A c \in Callers :
       (/\ callers[c].pc = "idle"
        /\ callers'[c] # callers[c]
        /\ circuitBreakers[CBName].state = "OPEN"
        /\ now < circuitBreakers[CBName].nextAttemptTime)
       => /\ callers'[c].pc = "idle"
          /\ callers'[c].last = "circuit-open"
          /\ circuitBreakers' = circuitBreakers]_vars

\* a call refused by the breaker, still OPEN and not yet due
FailFastWitness ==
  /\ circuitBreakers[CBName].state = "OPEN"
  /\ now < circuitBreakers[CBName].nextAttemptTime
  /\ \E c \in Callers : callers[c].pc = "idle" /\ callers[c].last = "circuit-open"

\* C8 as stated: an execute call made while OPEN at or after
\* nextAttemptTime makes the breaker HALF_OPEN and invokes its operation;
\* when that operation succeeds the breaker is CLOSED with failureCount 0
\* and no timestamps, and when it fails the breaker is OPEN with
\* nextAttemptTime = now + recoveryTimeout (calls that saw a reset aside)
TrialOutcome ==
  [][\A c \in Callers :
       LET cb == circuitBreakers[CBName]
           cb2 == circuitBreakers'[CBName]
       IN /\ (/\ callers[c].pc = "idle"
               /\ callers'[c] # callers[c]
               /\ cb.state = "OPEN"
               /\ now >= cb.nextAttemptTime)
              => (cb2.state = "HALF_OPEN" /\ callers'[c].pc = "running")
          /\ (/\ callers[c].pc = "running"
               /\ callers[c].enteredIn = "OPEN"
               /\ ~callers[c].wasReset
               /\ callers'[c].pc = "idle")
              => IF callers'[c].last = "returned"
                   THEN cb2 = CBNew
                   ELSE /\ cb2.state = "OPEN"
                        /\ cb2.nextAttemptTime = now + recoveryTimeout]_vars

\* operations invoked since the breaker opened and still in flight
Trials ==
  {c \in Callers : callers[c].pc = "running"
                    /\ callers[c].enteredIn \in {"OPEN", "HALF_OPEN"}}

\* C9 as stated: while the breaker is HALF_OPEN the trial is the only
\* operation invoked since it opened
SingleTrial ==
  circuitBreakers[CBName].state = "HALF_OPEN" => Cardinality(Trials) <= 1

\* C10 as stated: an OPEN breaker is before its nextAttemptTime
OpenOnlyBeforeReopen ==
  \A n \in ProviderNames :
    circuitBreakers[n].state = "OPEN" => now < circuitBreakers[n].nextAttemptTime

\* C10 amended: an OPEN breaker has a nextAttemptTime and no execute call
\* has been made at or after it; it stays OPEN past nextAttemptTime until
\* the next execute call
OpenUntilNextCall ==
  circuitBreakers[CBName].state = "OPEN" =>
    /\ circuitBreakers[CBName].nextAttemptTime # NoTime
    /\ lastCall < circuitBreakers[CBName].nextAttemptTime

\* an OPEN breaker past its nextAttemptTime, called before that
OpenUntilNextCallWitness ==
  /\ circuitBreakers[CBName].state = "OPEN"
  /\ now >= circuitBreakers[CBName].nextAttemptTime
  /\ lastCall # NoTime
  /\ \E c \in Callers : callers[c].last = "circuit-open"

----------------------------------------------------------------------------
(* One RateLimiter called directly by concurrent callers *)

\* what a call of acquire leaves in the history
rlAcquired(ok) ==
  /\ rlLast' = [op |-> "acquire", ok |-> ok, usage |-> 0, remaining |-> 0,
                flip |-> ~rlLast.flip]
  /\ lastAdmit' = IF ok THEN now ELSE lastAdmit

\* RateLimiter.acquire
rlAcquire(c) ==
  /\ rlCallers[c].pc = "idle"
  /\ requests' = acquireList(requests, now)
  /\ rlAcquired(acquireOk(requests, now))
  /\ UNCHANGED <<svcVars, cbVars, rlCallers, retryRuns, retryLast, queueVars>>

\* one pass of waitForSlot's loop: acquire, and the timer when it is refused
rlLoop(c) ==
  /\ requests' = acquireList(requests, now)
  /\ rlAcquired(acquireOk(requests, now))
  /\ rlCallers' = [rlCallers EXCEPT ![c] =
       IF acquireOk(requests, now) THEN RlCallerNew
       ELSE [pc |-> "waiting",
             wake |-> now + waitTime(acquireList(requests, now), now)]]
  /\ UNCHANGED <<svcVars, cbVars, retryRuns, retryLast, queueVars>>

\* RateLimiter.waitForSlot is called
rlWaitForSlot(c) ==
  /\ rlCallers[c].pc = "idle"
  /\ rlLoop(c)

\* RateLimiter.waitForSlot: the timer fired
rlWake(c) ==
  /\ rlCallers[c].pc = "waiting"
  /\ now >= rlCallers[c].wake
  /\ rlLoop(c)

\* RateLimiter.getCurrentUsage, and getRemainingSlots computed from it
getCurrentUsage ==
  /\ requests' = purge(requests, now)
  /\ rlLast' = [op |-> "usage", ok |-> FALSE,
                usage |-> Len(purge(requests, now)),
                remaining |-> Max(0, maxRequests - Len(purge(requests, now))),
                flip |-> ~rlLast.flip]
  /\ UNCHANGED <<svcVars, cbVars, rlCallers, lastAdmit, retryRuns, retryLast, queueVars>>

NextRL ==
  \/ \E c \in Callers : rlAcquire(c)
  \/ \E c \in Callers : rlWaitForSlot(c)
  \/ \E c \in Callers : rlWake(c)
  \/ getCurrentUsage
  \/ Tick

SpecRL == Init /\ [][NextRL]_vars

\* admissions recorded inside the trailing window
InWindow(reqs) == Cardinality({i \in DOMAIN reqs : now - reqs[i] < timeWindow})

\* C11: the admissions recorded inside the trailing window never exceed
\* maxRequests, and a call of acquire returns true only when the admissions
\* inside the window were fewer than maxRequests before it
WindowBound ==
  [][/\ InWindow(requests') <= maxRequests
     /\ (rlLast' # rlLast /\ rlLast'.op = "acquire" /\ rlLast'.ok)
         => (InWindow(requests) < maxRequests /\ lastAdmit' = now)]_vars

\* a full window: an acquire refused and a waitForSlot caller asleep
WindowBoundWitness ==
  /\ InWindow(requests) = maxRequests
  /\ rlLast.op = "acquire" /\ ~rlLast.ok
  /\ \E c \in Callers : rlCallers[c].pc = "waiting"

\* C12: a getCurrentUsage call made when timeWindow has passed since the
\* last admission returns 0, and getRemainingSlots then returns maxRequests
UsageReturnsToZero ==
  [][(/\ rlLast' # rlLast /\ rlLast'.op = "usage"
      /\ lastAdmit # NoTime
      /\ now - lastAdmit >= timeWindow)
     => (rlLast'.usage = 0 /\ rlLast'.remaining = maxRequests)]_vars

\* usage read as 0 after an admission that is timeWindow old
UsageReturnsToZeroWitness ==
  /\ rlLast.op = "usage" /\ rlLast.usage = 0
  /\ lastAdmit # NoTime
  /\ now - lastAdmit >= timeWindow

----------------------------------------------------------------------------
(* RetryMechanism.execute called directly, with an operation that returns  *)
(* or throws at each invocation                                            *)

\* what an operation may return and throw
OpValues == {"r1", "r2"}
OpErrors == {"E1", "E2"}

\* RetryMechanism.execute(operation): the first invocation is started
retryExecute(c) ==
  /\ retryRuns[c].pc \in {"idle", "returned", "thrown"}
  /\ retryRuns' = [retryRuns EXCEPT ![c] =
       [RetryNew EXCEPT !.pc = "calling", !.attempt = 1]]
  /\ UNCHANGED <<svcVars, requests, cbVars, rlVars, retryLast, queueVars>>

\* the operation resolves: execute returns its value
retryOpReturns(c, v) ==
  /\ retryRuns[c].pc = "calling"
  /\ retryRuns' = [retryRuns EXCEPT ![c] =
       [@ EXCEPT !.pc = "returned", !.hist = Append(@, v), !.out = v]]
  /\ UNCHANGED <<svcVars, requests, cbVars, rlVars, retryLast, queueVars>>

\* the operation rejects: the error is thrown on when no attempt is left,
\* else execute sleeps calculateDelay(attempt)
retryOpThrows(c, e) ==
  /\ retryRuns[c].pc = "calling"
  /\ retryRuns' = [retryRuns EXCEPT ![c] =
       IF exhausted(@.attempt)
         THEN [@ EXCEPT !.pc = "thrown", !.hist = Append(@, e), !.out = e]
         ELSE [@ EXCEPT !.pc = "sleeping", !.hist = Append(@, e),
                        !.wake = now + calculateDelay(retryRuns[c].attempt)]]
  /\ UNCHANGED <<svcVars, requests, cbVars, rlVars, retryLast, queueVars>>

\* the backoff timer fired: execute(operation, attempt + 1)
retryWake(c) ==
  /\ retryRuns[c].pc = "sleeping"
  /\ now >= retryRuns[c].wake
  /\ retryRuns' = [retryRuns EXCEPT ![c] =
       [@ EXCEPT !.pc = "calling", !.attempt = @ + 1]]
  /\ UNCHANGED <<svcVars, requests, cbVars, rlVars, retryLast, queueVars>>

NextRetry ==
  \/ \E c \in Callers : retryExecute(c)
  \/ \E c \in Callers, v \in OpValues : retryOpReturns(c, v)
  \/ \E c \in Callers, e \in OpErrors : retryOpThrows(c, e)
  \/ \E c \in Callers : retryWake(c)
  \/ Tick

SpecRetry == Init /\ [][NextRetry]_vars

\* the index of the operation's first successful invocation, 0 when none
FirstSuccess(hist) ==
  LET S == {i \in DOMAIN hist : hist[i] \in OpValues}
  IN IF S = {} THEN 0 ELSE CHOOSE i \in S : \A j \in S : i <= j

\* C13: execute never invokes the operation more than maxAttempts times;
\* when it returns, the operation was invoked exactly up to its first
\* success, within maxAttempts, and that invocation's value is returned;
\* when it throws, the operation was invoked maxAttempts times without a
\* success and the error thrown is the one of the last invocation
RetryCount ==
  \A c \in Callers :
    LET r == retryRuns[c]
        k == FirstSuccess(r.hist)
    IN /\ Len(r.hist) <= maxAttempts
       /\ r.pc = "returned" =>
            (k # 0 /\ k <= maxAttempts /\ Len(r.hist) = k /\ r.out = r.hist[k])
       /\ r.pc = "thrown" =>
            (k = 0 /\ Len(r.hist) = maxAttempts /\ r.out = r.hist[maxAttempts])

\* one call that returned after a failed invocation and one that threw
RetryCountWitness ==
  \E c, d \in Callers :
    /\ retryRuns[c].pc = "returned" /\ Len(retryRuns[c].hist) = maxAttempts
    /\ retryRuns[d].pc = "thrown"

----------------------------------------------------------------------------
(* EmailQueue, with a processor that resolves or rejects.  The timers of   *)
(* processNext (1000 ms on an empty queue, 10 ms after an item) fire at    *)
(* any later moment                                                        *)

\* the priorities the callers use
Priorities == {5, 10}

\* the processors handed to startProcessing
Processors == {"h1", "h2"}

\* insertWithPriority's insertIndex: one past the leading run of items whose
\* priority is below the new item's
RECURSIVE insertIndex(_, _)
insertIndex(q, priority) ==
  IF q = << >> \/ ~(Head(q).priority < priority) THEN 0
  ELSE 1 + insertIndex(Tail(q), priority)

\* queue.splice(insertIndex, 0, item)
insertWithPriority(q, item) ==
  LET i == insertIndex(q, item.priority)
  IN SubSeq(q, 1, i) \o <<item>> \o SubSeq(q, i + 1, Len(q))

\* EmailQueue.enqueue(email, priority)
enqueue(priority) ==
  /\ enqueued < MaxEnqueues
  /\ enqueued' = enqueued + 1
  /\ queue' = insertWithPriority(queue,
       [id |-> generateUUID(enqueued + 1), priority |-> priority, retryCount |-> 0])
  /\ UNCHANGED <<svcVars, requests, cbVars, rlVars, retryRuns, retryLast,
                 processing, processor, loops, qLast>>

\* EmailQueue.dequeue, called directly
dequeue ==
  /\ queue # << >>
  /\ queue' = Tail(queue)
  /\ UNCHANGED <<svcVars, requests, cbVars, rlVars, retryRuns, retryLast,
                 processing, processor, loops, enqueued, qLast>>

\* processNext without its test of this.processing
processNextNoCheck(l, q, on, proc, lps) ==
  IF proc = NoProcessor
    THEN /\ loops' = [lps EXCEPT ![l] = LoopNew]
         /\ queue' = q
  ELSE IF q = << >>
    THEN /\ loops' = [lps EXCEPT ![l] = [pc |-> "timer", item |-> NoItem]]
         /\ queue' = q
  ELSE /\ loops' = [lps EXCEPT ![l] = [pc |-> "handling", item |-> Head(q)]]
       /\ queue' = Tail(q)

\* processNext returning on an empty queue without setting its timer
processNextEndsOnEmpty(l, q, on, proc, lps) ==
  IF ~on \/ proc = NoProcessor \/ q = << >>
    THEN /\ loops' = [lps EXCEPT ![l] = LoopNew]
         /\ queue' = q
  ELSE /\ loops' = [lps EXCEPT ![l] = [pc |-> "handling", item |-> Head(q)]]
       /\ queue' = Tail(q)

\* processNext on chain l, with the fields as given: the chain ends when
\* processing is off, sets its timer on an empty queue and otherwise hands
\* the head of the queue to the processor
processNext(l, q, on, proc, lps) ==
  IF ~on \/ proc = NoProcessor
    THEN /\ loops' = [lps EXCEPT ![l] = LoopNew]
         /\ queue' = q
  ELSE IF q = << >>
    THEN /\ loops' = [lps EXCEPT ![l] = [pc |-> "timer", item |-> NoItem]]
         /\ queue' = q
  ELSE /\ loops' = [lps EXCEPT ![l] = [pc |-> "handling", item |-> Head(q)]]
       /\ queue' = Tail(q)

\* startProcessing without its check
alreadyProcessingNever(on) == FALSE

\* startProcessing's check: if (this.processing)
alreadyProcessing(on) == on

\* EmailQueue.startProcessing(processor)
startProcessing(h) ==
  IF alreadyProcessing(processing)
    THEN /\ qLast' = [op |-> "start", raised |-> TRUE]
         /\ UNCHANGED <<svcVars, requests, cbVars, rlVars, retryRuns, retryLast,
                        queue, processing, processor, loops, enqueued>>
    ELSE /\ \E l \in Loops : loops[l].pc = "ended"
         /\ qLast' = [op |-> "start", raised |-> FALSE]
         /\ processing' = TRUE
         /\ processor' = h
         /\ LET l == CHOOSE l \in Loops : loops[l].pc = "ended"
            IN processNext(l, queue, TRUE, h, loops)
         /\ UNCHANGED <<svcVars, requests, cbVars, rlVars, retryRuns, retryLast, enqueued>>

\* EmailQueue.stopProcessing
stopProcessing ==
  /\ processing' = FALSE
  /\ UNCHANGED <<svcVars, requests, cbVars, rlVars, retryRuns, retryLast,
                 queue, processor, loops, enqueued, qLast>>

\* a chain's timer fires: processNext
timerFires(l) ==
  /\ loops[l].pc = "timer"
  /\ processNext(l, queue, processing, processor, loops)
  /\ UNCHANGED <<svcVars, requests, cbVars, rlVars, retryRuns, retryLast,
                 processing, processor, enqueued, qLast>>

\* the catch of processNext without its test of retryCount
afterProcessorAlways(q, item, ok) ==
  IF ~ok
    THEN insertWithPriority(q, [item EXCEPT !.retryCount = @ + 1])
    ELSE q

\* the queue after the processor settled for an item: a failed item comes
\* back with retryCount + 1 while retryCount < 3
afterProcessor(q, item, ok) ==
  IF ~ok /\ item.retryCount < 3
    THEN insertWithPriority(q, [item EXCEPT !.retryCount = @ + 1])
    ELSE q

\* the processor's promise settles: the 10 ms timer is set
processorSettles(l, ok) ==
  /\ loops[l].pc = "handling"
  /\ queue' = afterProcessor(queue, loops[l].item, ok)
  /\ loops' = [loops EXCEPT ![l] = [pc |-> "timer", item |-> NoItem]]
  /\ UNCHANGED <<svcVars, requests, cbVars, rlVars, retryRuns, retryLast,
                 processing, processor, enqueued, qLast>>

NextQueue ==
  \/ \E priority \in Priorities : enqueue(priority)
  \/ dequeue
  \/ \E h \in Processors : startProcessing(h)
  \/ stopProcessing
  \/ \E l \in Loops : timerFires(l)
  \/ \E l \in Loops, ok \in BOOLEAN : processorSettles(l, ok)

SpecQueue == Init /\ [][NextQueue]_vars

\* C14 as stated: the entries come out of the queue by descending priority,
\* entries of equal priority in their insertion order (entries that were
\* never re-queued, whose ids follow their insertion)
QueueOrder ==
  \A i, j \in DOMAIN queue :
    (i < j /\ queue[i].retryCount = 0 /\ queue[j].retryCount = 0)
    => \/ queue[i].priority > queue[j].priority
       \/ (queue[i].priority = queue[j].priority /\ queue[i].id < queue[j].id)

\* the chains of processNext that have not ended
LiveLoops == {l \in Loops : loops[l].pc # "ended"}

\* C20: while the queue is processing, a call of startProcessing raises and
\* leaves the queue, the processing flag, the processor and the chains as
\* they were; no step replaces the processor of a running queue or adds a
\* chain to it
StartTwiceRaises ==
  [][processing =>
       /\ (qLast' # qLast) =>
            (qLast'.raised /\ UNCHANGED <<queue, processing, processor, loops>>)
       /\ processing' => processor' = processor
       /\ Cardinality(LiveLoops') <= Cardinality(LiveLoops)]_vars

\* startProcessing has raised on a queue whose chain awaits its processor
StartTwiceRaisesWitness ==
  /\ processing
  /\ qLast.raised
  /\ \E l \in Loops : loops[l].pc = "handling"
  /\ queue # << >>

----------------------------------------------------------------------------
(* The fallback loop of sendWithFallback, under Spec *)

\* the call runs the body of execute itself and is at a provider
AtProvider(tk) == tk.pc \in {"sending", "retrySleep"}

\* the providers strictly between two positions of the loop
Between(q1, q2) == {i \in ProviderIdx : q1 < i /\ i < q2}

\* C15: a call moves through the providers in configuration order only: the
\* provider it sends to next comes later in the list than the one it was at,
\* and every provider it passed over in between had a breaker that refused
\* the call; when a send returns a success the call settles at once as sent,
\* with that provider's name in the recorded outcome, and a settled call
\* never sends again
FallbackOrder ==
  [][\A t \in Tasks :
       LET tk == tasks[t]
           tk2 == tasks'[t]
       IN /\ (AtProvider(tk2) /\ tk2.provider # tk.provider) =>
               /\ tk.provider < tk2.provider
               /\ \A i \in Between(tk.provider, tk2.provider) :
                    ~cbAdmits(circuitBreakers[providers[i]], now)
          /\ (tk.pc = "sending" /\ tk2.pc = "done"
                /\ statusTracking'[t].status = "sent") =>
               /\ statusTracking'[t].result.success
               /\ statusTracking'[t].result.provider = providers[tk.provider]
          /\ tk.pc = "done" => tk2 = tk]_vars

\* the first provider failed the call by throwing until the retries were
\* used up, the second one succeeded, and the record says sent by "B"
FallbackOrderWitness ==
  \E t \in Tasks :
    /\ tasks[t].pc = "done" /\ tasks[t].path = "run"
    /\ \A u \in Tasks \ {t} : tasks[u].pc = "idle"
    /\ circuitBreakers["A"].failureCount = 1
    /\ statusTracking[t].status = "sent"
    /\ statusTracking[t].result.provider = "B"

----------------------------------------------------------------------------
(* sendEmail as its caller sees it, under Spec *)

\* the next call of sendEmail is the t-th
NextCall(t) ==
  /\ tasks[t].pc = "idle"
  /\ \A u \in Tasks : u < t => tasks[u].pc # "idle"

\* C18: whatever the rate limiter, the breakers and the cache hold, the next
\* sendEmail can be made with any message and any user; the call returns an
\* id no record had before, the record of that id is there when it returns
\* while the pipeline is still on its way, and no record is ever removed
SubmitNeverRejects ==
  /\ [](\A t \in Tasks : NextCall(t) =>
          \A e \in Emails, u \in Users : ENABLED sendEmail(t, e, u))
  /\ [][/\ DOMAIN statusTracking \subseteq DOMAIN statusTracking'
        /\ \A t \in Tasks :
             (tasks[t].pc = "idle" /\ tasks'[t].pc # "idle") =>
               /\ generateUUID(t) \notin DOMAIN statusTracking
               /\ generateUUID(t) \in DOMAIN statusTracking'
               /\ tasks'[t].pc \in {"slot", "rlWait"}]_vars

\* a call was made while the rate limiter was full and an earlier call had
\* already failed, and its record is there while it waits for a slot
SubmitNeverRejectsWitness ==
  \E t \in Tasks :
    /\ tasks[t].pc = "rlWait"
    /\ Len(requests) >= maxRequests
    /\ generateUUID(t) \in DOMAIN statusTracking
    /\ \E u \in Tasks \ {t} : statusTracking[u].status = "failed"

----------------------------------------------------------------------------
(* Progress of the pipeline *)

\* a provider's send comes back, one way or the other
sendSettles(t) == (\E success \in BOOLEAN : sendReturns(t, success)) \/ sendThrows(t)

\* the service with what its progress rests on: time goes by, a timer that
\* is due fires, a continuation that is ready runs, a send comes back
SpecLive ==
  /\ Init /\ [][Next]_vars
  /\ WF_vars(Tick)
  /\ \A t \in Tasks :
       /\ WF_vars(waitForSlot(t))
       /\ WF_vars(execute(t))
       /\ WF_vars(waitForPendingRequest(t))
       /\ WF_vars(retry(t))
       /\ WF_vars(sendSettles(t))

\* the record of a call has reached sent or failed
Terminal(t) ==
  /\ t \in DOMAIN statusTracking
  /\ statusTracking[t].status \in {"sent", "failed"}

\* C17: every call of sendEmail is followed by a state where its record is
\* sent or failed, whatever the other calls do, also when it has to wait for
\* a slot of the rate limiter or for a pending request of its key
Terminates ==
  \A t \in Tasks : (tasks[t].pc # "idle") ~> Terminal(t)

\* every call has settled, one of them after waiting for the pending request
\* of the other
TerminatesWitness ==
  /\ \A t \in Tasks : tasks[t].pc = "done" /\ Terminal(t)
  /\ \E t \in Tasks : tasks[t].path = "wait"

----------------------------------------------------------------------------
(* EmailService with its queue: enqueueEmail, startQueueProcessing and the  *)
(* chains of processNext, whose processor is processEmail with the key ''   *)

\* the message handed to enqueueEmail with the item of this id: every call
\* enqueues a message of its own, to a recipient no other message has
QueuedEmail(id) == [to |-> <<id>>, subject |-> 1]

\* the processor startQueueProcessing hands to the queue
ProcessEmail == "processEmail"

\* the frame of the processEmail call made for the queue item of this id
frame(id) == tasks[id]

\* processNext is about to hand the head of the queue to the processor
hands(q, on, proc) == on /\ proc # NoProcessor /\ q # << >>

\* the processor called by processNext: processEmail(item.id, item.email,
\* '', undefined) up to its first suspension, as in sendEmail
handler(q, on, proc) ==
  IF hands(q, on, proc)
    THEN LET id == Head(q).id
             tk == [TaskNew EXCEPT !.email = QueuedEmail(id)]
         IN /\ statusTracking' = updateStatus(statusTracking, id, "sending", NoResult, "")
            /\ requests' = acquireList(requests, now)
            /\ tasks' = [tasks EXCEPT ![id] = afterAcquire(tk, requests, now)]
    ELSE UNCHANGED <<statusTracking, requests, tasks>>

\* EmailService.enqueueEmail: return this.queue.enqueue(email, priority)
enqueueEmail(priority) == enqueue(priority)

\* EmailService.startQueueProcessing
startQueueProcessing ==
  IF alreadyProcessing(processing)
    THEN /\ qLast' = [op |-> "start", raised |-> TRUE]
         /\ UNCHANGED <<svcVars, requests, cbVars, rlVars, retryRuns, retryLast,
                        queue, processing, processor, loops, enqueued>>
    ELSE /\ \E l \in Loops : loops[l].pc = "ended"
         /\ qLast' = [op |-> "start", raised |-> FALSE]
         /\ processing' = TRUE
         /\ processor' = ProcessEmail
         /\ LET l == CHOOSE l \in Loops : loops[l].pc = "ended"
            IN processNext(l, queue, TRUE, ProcessEmail, loops)
         /\ handler(queue, TRUE, ProcessEmail)
         /\ UNCHANGED <<cache, pendingRequests, circuitBreakers, okSends,
                        clearedUpTo, cbVars, rlVars, retryRuns, retryLast, enqueued>>

\* EmailService.stopQueueProcessing
stopQueueProcessing == stopProcessing

\* a chain's timer fires: processNext, and the processor if it is called
drainTimerFires(l) ==
  /\ loops[l].pc = "timer"
  /\ processNext(l, queue, processing, processor, loops)
  /\ handler(queue, processing, processor)
  /\ UNCHANGED <<cache, pendingRequests, circuitBreakers, okSends,
                 clearedUpTo, cbVars, rlVars, retryRuns, retryLast,
                 processing, processor, enqueued, qLast>>

\* the processEmail call a chain awaits has settled and the chain has not
\* gone on yet
HandlerReady(l) ==
  /\ loops[l].pc = "handling"
  /\ frame(loops[l].item.id).pc = "done"

\* no chain has a continuation to run
Quiet == \A l \in Loops : ~HandlerReady(l)

\* processNext goes on after its await: the catch re-queues the item of a
\* rejected processEmail, then the 10 ms timer is set
handlerSettles(l) ==
  /\ HandlerReady(l)
  /\ processorSettles(l, frame(loops[l].item.id).out = "resolved")

\* the continuation of a settled await runs before any timer fires and
\* before any further call comes in.  The providers are the repository's
\* MockEmailProvider, whose send resolves with a success or with a failure
\* result and never rejects
NextDrain ==
  \/ \E l \in Loops : handlerSettles(l)
  \/ \E priority \in Priorities : Quiet /\ enqueueEmail(priority)
  \/ Quiet /\ startQueueProcessing
  \/ Quiet /\ stopQueueProcessing
  \/ \E l \in Loops : Quiet /\ drainTimerFires(l)
  \/ \E t \in Tasks : Quiet /\ waitForSlot(t)
  \/ \E t \in Tasks : Quiet /\ execute(t)
  \/ \E t \in Tasks : Quiet /\ waitForPendingRequest(t)
  \/ \E t \in Tasks, success \in BOOLEAN : Quiet /\ sendReturns(t, success)
  \/ Quiet /\ Tick

SpecDrain == Init /\ [][NextDrain]_vars

\* the ids enqueueEmail has returned so far
EnqueuedIds == {generateUUID(i) : i \in 1..enqueued}

\* C19: every id enqueueEmail has returned has a record, which is pending
\* until the queue hands the item to the processor and sent or failed once
\* the processEmail call made for it has settled
EnqueuedHasRecord ==
  \A id \in EnqueuedIds :
    /\ id \in DOMAIN statusTracking
    /\ frame(id).pc = "idle" => statusTracking[id].status = "pending"
    /\ frame(id).pc = "done" => Terminal(id)

----------------------------------------------------------------------------
(* The chains of processNext, under SpecQueue *)

\* the ids of the items of a queue
Ids(q) == {q[i].id : i \in DOMAIN q}

\* the item of this id in a queue that holds it
ItemOf(q, id) == q[CHOOSE i \in DOMAIN q : q[i].id = id]

\* C21: while processing stays off no chain takes an item from the queue
\* and calls the processor, and stopProcessing itself touches neither the
\* queue nor the chains: a chain that awaits the processor goes on awaiting
\* it until the processor settles
StopHalts ==
  [][/\ (~processing /\ ~processing') =>
          \A l \in Loops : loops'[l].pc = "handling" => loops'[l] = loops[l]
     /\ (processing /\ ~processing') =>
          (loops' = loops /\ queue' = queue)]_vars

\* the queue was started and then stopped with an item left in it, and the
\* chain has ended without taking the item
StopHaltsWitness ==
  /\ ~processing
  /\ qLast.op = "start" /\ ~qLast.raised
  /\ queue # << >>
  /\ \A l \in Loops : loops[l].pc = "ended"

\* C22: every item waiting or being handled has a retryCount of 0 to 3, so
\* that the processor, called once per retryCount, is called at most 4
\* times for an item; an id enters the queue only by enqueue, as a new id,
\* or from the chain that handled it, then with retryCount one higher and
\* only if it was below 3; any other item whose processor settled is gone
RetryCap ==
  /\ [](/\ \A i \in DOMAIN queue : queue[i].retryCount \in 0..3
        /\ \A l \in Loops : loops[l].pc = "handling" =>
                              loops[l].item.retryCount \in 0..3)
  /\ [][\A id \in Ids(queue') \ Ids(queue) :
          \/ /\ enqueued' = enqueued + 1
             /\ id = generateUUID(enqueued')
             /\ ItemOf(queue', id).retryCount = 0
          \/ \E l \in Loops :
               /\ loops[l].pc = "handling" /\ loops'[l].pc # "handling"
               /\ loops[l].item.id = id
               /\ loops[l].item.retryCount < 3
               /\ ItemOf(queue', id).retryCount = loops[l].item.retryCount + 1]_vars

\* the processor is called for the fourth time for an item
RetryCapWitness ==
  \E l \in Loops : loops[l].pc = "handling" /\ loops[l].item.retryCount = 3

----------------------------------------------------------------------------
(* Providers, retries and breakers inside sendWithFallback, under Spec *)

\* in this step the call t leaves the provider it was sending to without a
\* successful outcome: the dispatch on that provider has failed
DispatchFails(t) ==
  /\ tasks[t].pc = "sending"
  /\ tasks'[t].provider # tasks[t].provider
  /\ statusTracking'[t].status # "sent"

\* C23: each dispatch that fails on a provider, by a thrown error or by a
\* failure result, is counted by that provider's breaker, and the breaker
\* is OPEN as soon as failureThreshold failed dispatches in a row are
\* counted
FailedDispatchCounted ==
  [][\A t \in Tasks :
       DispatchFails(t) =>
         LET name == providers[tasks[t].provider]
             cb == circuitBreakers[name]
             cb2 == circuitBreakers'[name]
         IN /\ cb2.failureCount = cb.failureCount + 1
            /\ cb2.failureCount >= failureThreshold => cb2.state = "OPEN"]_vars

\* C24: the loop of sendWithFallback moves on from a provider only when
\* that provider's send has been invoked maxAttempts times for the dispatch,
\* whether the send fails by a thrown error or by a failure result
FailureRetried ==
  [][\A t \in Tasks : DispatchFails(t) => tasks[t].attempt = maxAttempts]_vars

\* C25: a thrown error that leaves attempts to make changes no breaker; the
\* thrown error of the last attempt adds exactly one to the failureCount of
\* the provider's breaker; and a send that succeeds, after whatever number
\* of attempts, leaves that breaker with no failure recorded
OneFailurePerDispatch ==
  [][\A t \in Tasks :
       LET name == providers[tasks[t].provider]
       IN /\ (tasks'[t] # tasks[t] /\ sendThrows(t)) =>
               IF tasks[t].attempt >= maxAttempts
                 THEN circuitBreakers'[name].failureCount =
                        circuitBreakers[name].failureCount + 1
                 ELSE /\ tasks'[t].pc = "retrySleep"
                      /\ circuitBreakers' = circuitBreakers
          /\ (tasks'[t] # tasks[t] /\ sendReturns(t, TRUE)) =>
               /\ circuitBreakers'[name].failureCount = 0
               /\ circuitBreakers'[name].lastFailureTime = NoTime]_vars

\* a call has used up its attempts on "A" by thrown errors and is now at
\* "B": the breaker of "A" counts one failure
OneFailurePerDispatchWitness ==
  \E t \in Tasks :
    /\ tasks[t].pc = "sending" /\ tasks[t].provider = 2
    /\ \A u \in Tasks \ {t} : tasks[u].pc = "idle"
    /\ maxAttempts > 1
    /\ circuitBreakers["A"].failureCount = 1

----------------------------------------------------------------------------
(* The service with a breaker that has just opened *)

\* a breaker after failureThreshold failed dispatches in a row, the last
\* one just now
CBTripped ==
  onFailure([CBNew EXCEPT !.failureCount = failureThreshold - 1,
                          !.lastFailureTime = now], now)

\* the service once failureThreshold dispatches in a row have failed on one
\* provider by thrown errors and the admissions of those dispatches have
\* left the window; the dispatches were made for queue items, which leave
\* no record in the status table
InitTripped ==
  /\ statusTracking = << >>
  /\ tasks = [t \in Tasks |-> TaskNew]
  /\ requests = << >>
  /\ cache = << >>
  /\ pendingRequests = {}
  /\ \E n \in ProviderNames :
       circuitBreakers = [m \in ProviderNames |->
                            IF m = n THEN CBTripped ELSE CBNew]
  /\ okSends = [k \in AllKeys |-> 0]
  /\ clearedUpTo = 0
  /\ callers = [c \in Callers |-> CallerNew]
  /\ streak = 0
  /\ lastCall = NoTime
  /\ rlCallers = [c \in Callers |-> RlCallerNew]
  /\ rlLast = RlNone
  /\ lastAdmit = NoTime
  /\ retryRuns = [c \in Callers |-> RetryNew]
  /\ retryLast = [config |-> RetryConfig, attempt |-> 0, delay |-> 0]
  /\ queue = << >>
  /\ processing = FALSE
  /\ processor = NoProcessor
  /\ loops = [l \in Loops |-> LoopNew]
  /\ enqueued = 0
  /\ qLast = [op |-> "", raised |-> FALSE]

\* the calls of sendEmail and what they lead to, with no administrative
\* call in between
NextCalls ==
  \/ \E t \in Tasks, e \in Emails, u \in Users : sendEmail(t, e, u)
  \/ \E t \in Tasks : waitForSlot(t)
  \/ \E t \in Tasks : execute(t)
  \/ \E t \in Tasks : waitForPendingRequest(t)
  \/ \E t \in Tasks, success \in BOOLEAN : sendReturns(t, success)
  \/ \E t \in Tasks : sendThrows(t)
  \/ \E t \in Tasks : retry(t)
  \/ Tick

SpecTripped == InitTripped /\ [][NextCalls]_vars

\* the breaker is OPEN and its recovery time has not come
FailsFast(cb) == cb.state = "OPEN" /\ ~shouldAttemptReset(cb, now)

\* C26: a call is never sent to a provider whose breaker is OPEN before its
\* recovery time: the loop goes on to the next provider, and the call is
\* sent to the first later provider whose breaker lets it through; the
\* dispatch fails only when every provider left has failed it or was
\* passed over in this way
OpenSkipped ==
  [][\A t \in Tasks :
       LET tk == tasks[t]
           tk2 == tasks'[t]
       IN /\ (tk2.pc = "sending" /\ tk2.provider # tk.provider) =>
               ~FailsFast(circuitBreakers[providers[tk2.provider]])
          /\ (tk.pc \in {"slot", "sending"} /\ tk.pc # tk2.pc
                /\ tk2.path = "run" /\ tk2.out = "rejected") =>
               \A i \in ProviderIdx :
                 i > tk.provider => FailsFast(circuitBreakers[providers[i]])]_vars

\* the first call made after the breaker of "A" opened is at "B", on its
\* first attempt, while "A" is still OPEN before its recovery time
OpenSkippedWitness ==
  \E t \in Tasks :
    /\ tasks[t].pc = "sending" /\ tasks[t].provider = 2
    /\ tasks[t].attempt = 1
    /\ \A u \in Tasks \ {t} : tasks[u].pc = "idle"
    /\ circuitBreakers["A"] = CBTripped

\* the call t takes a step of its pipeline
Moves(t) ==
  \/ tasks'[t].pc # tasks[t].pc
  \/ tasks'[t].provider # tasks[t].provider
  \/ tasks'[t].attempt # tasks[t].attempt

\* the provider the call t starts sending to in this step, if any
Entered(t) ==
  IF tasks'[t].pc = "sending" /\ tasks'[t].provider # tasks[t].provider
    THEN {providers[tasks'[t].provider]} ELSE {}

\* the provider whose send the call t was at, if any
Left(t) ==
  IF tasks[t].provider \in ProviderIdx THEN {providers[tasks[t].provider]} ELSE {}

\* C27: when a send on one provider succeeds or fails, or a provider's
\* breaker rejects a call, the record of every other provider's breaker
\* stays as it is, but for the entry check of the provider the call is sent
\* to next; a breaker that rejects a call does not change either
Isolation ==
  [][\A t \in Tasks :
       Moves(t) =>
         \A n \in ProviderNames \ Left(t) :
           circuitBreakers'[n] =
             IF n \in Entered(t) THEN cbEnter(circuitBreakers[n], now)
             ELSE circuitBreakers[n]]_vars

\* the breaker of "A" has rejected a call and the send on "B" has
\* succeeded: the record of "A" is as it was
IsolationWitness ==
  \E t \in Tasks :
    /\ tasks[t].pc = "done" /\ tasks[t].path = "run"
    /\ statusTracking[t].status = "sent"
    /\ statusTracking[t].result.provider = "B"
    /\ circuitBreakers["A"] = CBTripped

----------------------------------------------------------------------------
(* The order of the pipeline and the status record, under Spec *)

\* the call has not been admitted by the rate limiter yet
Unadmitted(tk) == tk.pc \in {"idle", "rlWait"}

\* C28: a call comes to the lookup of execute only in a step in which
\* acquire admits it, and no wait for a pending request, no send and no
\* outcome comes before that; the admitting acquire puts one timestamp, now,
\* in the window, a refusing one puts none, and once admitted the call puts
\* no further timestamp in the window
AdmittedFirst ==
  [][\A t \in Tasks :
       LET tk == tasks[t]
           tk2 == tasks'[t]
       IN /\ (Unadmitted(tk) /\ ~Unadmitted(tk2)) =>
               /\ tk2.pc = "slot"
               /\ Len(purge(requests, now)) < maxRequests
               /\ requests' = Append(purge(requests, now), now)
          /\ (tk.pc = "idle" /\ tk2.pc = "rlWait") =>
               requests' = purge(requests, now)
          /\ (~Unadmitted(tk) /\ Moves(t)) => requests' = requests]_vars

\* one call has been admitted and is sending; the next is refused and
\* waits for the slot
AdmittedFirstWitness ==
  \E t, u \in Tasks :
    /\ tasks[t].pc = "sending"
    /\ tasks[u].pc = "rlWait"
    /\ Len(requests) = maxRequests

\* C29: each time a send is made again for a call, by the retry after a
\* backoff or on the next provider, the call's record goes to sending again
\* with attempts one higher
RetriesCounted ==
  [][\A t \in Tasks :
       (/\ tasks[t].pc \in {"retrySleep", "sending"}
        /\ tasks'[t].pc = "sending"
        /\ \/ tasks[t].pc = "retrySleep"
           \/ tasks'[t].provider # tasks[t].provider) =>
         /\ statusTracking'[t].status = "sending"
         /\ statusTracking'[t].attempts = statusTracking[t].attempts + 1]_vars

\* C30: a record is made pending and is sending when sendEmail returns; from
\* sending it goes to sent or to failed, and from there nowhere: a record
\* that is sent or failed keeps its status for good, and no record leaves
\* the status table
StatusForward ==
  [][/\ DOMAIN statusTracking \subseteq DOMAIN statusTracking'
     /\ \A id \in DOMAIN statusTracking :
          LET a == statusTracking[id].status
              b == statusTracking'[id].status
          IN /\ a \in {"sent", "failed"} => b = a
             /\ a \in {"sending", "retrying"} =>
                  b \in {"sending", "retrying", "sent", "failed"}
             /\ a = "pending" => b \in {"pending", "sending"}
     /\ \A id \in DOMAIN statusTracking' \ DOMAIN statusTracking :
          statusTracking'[id].status \in {"pending", "sending"}]_vars

\* a record is sent and another is failed, each kept while the other call
\* ran its pipeline to the end
StatusForwardWitness ==
  \E t, u \in Tasks :
    /\ tasks[t].pc = "done" /\ tasks[u].pc = "done"
    /\ statusTracking[t].status = "sent"
    /\ statusTracking[u].status = "failed"

----------------------------------------------------------------------------
(* The wait for a pending key, with time going by and the poll timer firing *)
(* but no send ever required to come back                                   *)

\* the calls of the service with the repository's MockEmailProvider, whose
\* send resolves with a success or with a failure result and never rejects,
\* and the cache cleared at any moment
NextWait ==
  \/ \E t \in Tasks, e \in Emails, u \in Users : sendEmail(t, e, u)
  \/ \E t \in Tasks : waitForSlot(t)
  \/ \E t \in Tasks : execute(t)
  \/ \E t \in Tasks : waitForPendingRequest(t)
  \/ \E t \in Tasks, success \in BOOLEAN : sendReturns(t, success)
  \/ clearCache
  \/ Tick

SpecWait ==
  /\ Init /\ [][NextWait]_vars
  /\ WF_vars(Tick)
  /\ \A t \in Tasks : WF_vars(waitForPendingRequest(t))

\* the call t, waiting for its key, runs a pass of the loop of
\* waitForPendingRequest in this step
Polls(t) ==
  /\ tasks[t].pc = "dedupWait"
  /\ tasks'[t].pc = "done" \/ tasks'[t].wake > tasks[t].wake

\* C31: a call that found its key pending has its next poll set no later
\* than maxWaitTime after the wait began; a poll ends the wait with the
\* timeout error once maxWaitTime has passed, else with the cached result
\* when there is one, else with the failure error when the key is no longer
\* pending, and only otherwise goes on waiting; and every such wait ends,
\* whether or not the send in flight ever comes back
WaitBounded ==
  /\ [](\A t \in Tasks : tasks[t].pc = "dedupWait" =>
            tasks[t].wake - tasks[t].startTime <= maxWaitTime)
  /\ [][\A t \in Tasks : Polls(t) =>
          LET key == tasks[t].key
              rec == statusTracking'[t]
          IN IF now - tasks[t].startTime >= maxWaitTime
               THEN /\ tasks'[t].out = "rejected" /\ rec.status = "failed"
                    /\ rec.result.error = "Timeout waiting for pending request"
             ELSE IF key \in DOMAIN cache
               THEN /\ tasks'[t].out = "resolved" /\ rec.status = "sent"
                    /\ rec.result = cache[key]
             ELSE IF key \notin pendingRequests
               THEN /\ tasks'[t].out = "rejected" /\ rec.status = "failed"
                    /\ rec.result.error =
                         "Request failed while waiting for pending operation"
             ELSE tasks'[t].pc = "dedupWait"]_vars
  /\ \A t \in Tasks : (tasks[t].pc = "dedupWait") ~> (tasks[t].pc = "done")

\* a wait has ended with the timeout error while the send it waited for is
\* still in flight
WaitBoundedWitness ==
  \E t, u \in Tasks :
    /\ tasks[t].pc = "done" /\ tasks[t].path = "wait"
    /\ statusTracking[t].result.error = "Timeout waiting for pending request"
    /\ InFlight(u) /\ tasks[u].key = tasks[t].key

----------------------------------------------------------------------------
(* The pending set of the IdempotencyService, under Spec *)

\* C32: the keys marked pending are the keys of the operations in flight,
\* one operation per key: a key is marked when execute starts its operation
\* and is no longer marked once the operation has returned or thrown, so
\* the set is empty whenever no operation is in flight
PendingWhileInFlight ==
  /\ pendingRequests = {tasks[t].key : t \in {u \in Tasks : InFlight(u)}}
  /\ \A t, u \in Tasks :
       (InFlight(t) /\ InFlight(u) /\ tasks[t].key = tasks[u].key) => t = u

\* one operation has returned and another has thrown, and nothing is
\* pending
PendingWhileInFlightWitness ==
  /\ pendingRequests = {}
  /\ \E t, u \in Tasks :
       /\ tasks[t].path = "run" /\ tasks[t].out = "resolved"
       /\ tasks[u].path = "run" /\ tasks[u].out = "rejected"

----------------------------------------------------------------------------
(* The keys of the queued messages, under SpecDrain *)

\* C33: the processEmail call made for a queue item runs under the key
\* generateKey gives for the item's own message, and so sends the message
\* through a provider itself: it neither takes a cached outcome nor waits
\* for the pending send of another item
OwnKeyDispatch ==
  \A id \in EnqueuedIds :
    frame(id).pc # "idle" =>
      /\ frame(id).key = generateKey(frame(id).email, NoUser, NoUser)
      /\ frame(id).path \in {"", "run"}

----------------------------------------------------------------------------
(* The number of chains of processNext, under SpecQueue *)

\* C34: whatever calls of startProcessing and stopProcessing were made, at
\* most one chain awaits the processor and at most one has its timer set
OneLoop ==
  /\ Cardinality({l \in Loops : loops[l].pc = "handling"}) <= 1
  /\ Cardinality({l \in Loops : loops[l].pc = "timer"}) <= 1

----------------------------------------------------------------------------
(* The ways a breaker closes, under SpecCB *)

\* C35: a breaker that is not CLOSED becomes CLOSED only by reset or when
\* the trial of HALF_OPEN, the call that was let through the OPEN breaker,
\* returns: no call that was let in before the breaker opened closes it
ClosedByTrialOnly ==
  [][LET cb == circuitBreakers[CBName] IN
     (cb.state # "CLOSED" /\ circuitBreakers'[CBName].state = "CLOSED") =>
       \/ \A c \in Callers : callers'[c].pc = callers[c].pc
       \/ \E c \in Callers :
            /\ callers[c].pc = "running" /\ callers'[c].pc = "idle"
            /\ callers[c].enteredIn = "OPEN"
            /\ cb.state = "HALF_OPEN"]_vars

----------------------------------------------------------------------------
(* What a waiter is told about the send it waited for, under Spec *)

\* C36: a poll ends the wait with the failure error only if the operation
\* run for the key has thrown, and with the outcome of that operation if it
\* has returned one, whenever the cache is cleared
WaiterToldTheTruth ==
  [][\A t \in Tasks : \A u \in Tasks \ {t} :
       (/\ Polls(t) /\ tasks'[t].pc = "done"
        /\ now - tasks[t].startTime < maxWaitTime
        /\ tasks[u].key = tasks[t].key
        /\ tasks[u].path = "run" /\ tasks[u].pc = "done") =>
         IF tasks[u].out = "resolved"
           THEN statusTracking'[t].result = statusTracking[u].result
           ELSE statusTracking'[t].result.error =
                  "Request failed while waiting for pending operation"]_vars

----------------------------------------------------------------------------
(* EmailQueue with remove, updatePriority and clear called at any moment *)

\* queue.findIndex(item => item.id === id): the first position holding the
\* id, 0 for the -1 of no position
indexOf(q, id) ==
  IF id \notin Ids(q) THEN 0
  ELSE CHOOSE i \in DOMAIN q :
         q[i].id = id /\ \A j \in 1..(i - 1) : q[j].id # id

\* EmailQueue.remove(id): splice(index, 1) when the id is found
remove(id) ==
  /\ LET i == indexOf(queue, id)
     IN queue' = IF i = 0 THEN queue
                 ELSE SubSeq(queue, 1, i - 1) \o SubSeq(queue, i + 1, Len(queue))
  /\ UNCHANGED <<svcVars, requests, cbVars, rlVars, retryRuns, retryLast,
                 processing, processor, loops, enqueued, qLast>>

\* updatePriority inserting the item without removing it first
updatePriorityNoRemove(id, newPriority) ==
  /\ LET i == indexOf(queue, id)
     IN queue' = IF i = 0 THEN queue
                 ELSE LET q == [queue EXCEPT ![i].priority = newPriority]
                      IN insertWithPriority(q, q[i])
  /\ UNCHANGED <<svcVars, requests, cbVars, rlVars, retryRuns, retryLast,
                 processing, processor, loops, enqueued, qLast>>

\* EmailQueue.updatePriority(id, newPriority): the item is taken out, given
\* the priority and inserted again
updatePriority(id, newPriority) ==
  /\ LET i == indexOf(queue, id)
     IN queue' = IF i = 0 THEN queue
                 ELSE insertWithPriority(
                        SubSeq(queue, 1, i - 1) \o SubSeq(queue, i + 1, Len(queue)),
                        [queue[i] EXCEPT !.priority = newPriority])
  /\ UNCHANGED <<svcVars, requests, cbVars, rlVars, retryRuns, retryLast,
                 processing, processor, loops, enqueued, qLast>>

\* EmailQueue.clear
clear ==
  /\ queue' = << >>
  /\ UNCHANGED <<svcVars, requests, cbVars, rlVars, retryRuns, retryLast,
                 processing, processor, loops, enqueued, qLast>>

\* every method of the queue that writes it, the queue started with one
\* processor as EmailService starts it
NextQueueOps ==
  \/ \E priority \in Priorities : enqueue(priority)
  \/ dequeue
  \/ startProcessing(ProcessEmail)
  \/ stopProcessing
  \/ \E l \in Loops : timerFires(l)
  \/ \E l \in Loops, ok \in BOOLEAN : processorSettles(l, ok)
  \/ \E id \in 1..MaxEnqueues : remove(generateUUID(id))
  \/ \E id \in 1..MaxEnqueues, priority \in Priorities :
       updatePriority(generateUUID(id), priority)
  \/ clear

SpecQueueOps == Init /\ [][NextQueueOps]_vars

\* C37: an id is at most once in the queue, and an item is either waiting
\* in the queue or held by one chain that awaits the processor for it,
\* never both; an id comes in only with enqueue, as the new id, and never
\* comes back once it is out; it goes out from a chain only when the
\* processor has settled for it (resolved, or rejected with the retries
\* used up), and from the queue only by dequeue, remove or clear
Conserved ==
  /\ [](LET Held == {l \in Loops : loops[l].pc = "handling"}
        IN /\ \A i, j \in DOMAIN queue : queue[i].id = queue[j].id => i = j
           /\ \A l \in Held : loops[l].item.id \notin Ids(queue)
           /\ \A l, m \in Held : loops[l].item.id = loops[m].item.id => l = m
           /\ \A l \in Held : loops[l].item.id \in EnqueuedIds
           /\ Ids(queue) \subseteq EnqueuedIds)
  /\ [][LET Held == {l \in Loops : loops[l].pc = "handling"}
            before == Ids(queue) \cup {loops[l].item.id : l \in Held}
            after == Ids(queue') \cup
                       {loops'[l].item.id :
                          l \in {m \in Loops : loops'[m].pc = "handling"}}
        IN /\ after \ before \subseteq (EnqueuedIds' \ EnqueuedIds)
           /\ \A id \in before \ after :
                IF id \in Ids(queue)
                  THEN loops' = loops /\ Len(queue') < Len(queue)
                  ELSE \E l \in Held :
                         /\ loops[l].item.id = id
                         /\ loops'[l].pc = "timer"
                         /\ queue' = queue]_vars

\* two items of one priority wait in the order of their ids, which only
\* updatePriority brings about for items that were never re-queued, while a
\* chain of the running queue is on its timer
ConservedWitness ==
  /\ Len(queue) = 2
  /\ queue[1].id < queue[2].id
  /\ queue[1].priority = queue[2].priority
  /\ queue[1].retryCount = 0 /\ queue[2].retryCount = 0
  /\ processing
  /\ \E l \in Loops : loops[l].pc = "timer"

----------------------------------------------------------------------------
(* The caller's message after sendEmail, under Spec *)

\* C38: the message a caller hands to sendEmail is, when the call has
\* returned, as the caller made it, its recipients in the same order
MessageUnchanged ==
  [][\A t \in Tasks :
       (NextCall(t) /\ tasks'[t].pc # "idle") =>
         \E e \in Emails, u \in Users :
           sendEmail(t, e, u) /\ tasks'[t].email = e]_vars

----------------------------------------------------------------------------
(* The queue started and never stopped, drained by its chain alone, every  *)
(* timer firing and every processor call settling                          *)

NextQueueDrain ==
  \/ \E priority \in Priorities : enqueue(priority)
  \/ startProcessing(ProcessEmail)
  \/ \E l \in Loops : timerFires(l)
  \/ \E l \in Loops, ok \in BOOLEAN : processorSettles(l, ok)

SpecQueueLive ==
  /\ Init /\ [][NextQueueDrain]_vars
  /\ \A l \in Loops :
       /\ WF_vars(timerFires(l))
       /\ WF_vars(\E ok \in BOOLEAN : processorSettles(l, ok))

\* C40: the chain of a queue that is processing never ends, on an empty
\* queue it sets its timer; and every item waiting in the processing queue,
\* whether it came before the start or while the chain polled the empty
\* queue, is handed to the processor
DrainsAll ==
  /\ [](processing => LiveLoops # {})
  /\ [][\A l \in Loops :
          (loops[l].pc # "ended" /\ loops'[l].pc = "ended") => ~processing]_vars
  /\ \A id \in 1..MaxEnqueues :
       (processing /\ generateUUID(id) \in Ids(queue)) ~>
         (\E l \in Loops : /\ loops[l].pc = "handling"
                            /\ loops[l].item.id = generateUUID(id))

\* every item enqueued has been handed to the processor and has not come
\* back, and the chain polls the empty queue
DrainsAllWitness ==
  /\ processing
  /\ enqueued = MaxEnqueues
  /\ queue = << >>
  /\ \E l \in Loops : loops[l].pc = "timer"
  /\ \A l \in Loops : loops[l].pc # "handling"

----------------------------------------------------------------------------
(* RetryMechanism.getNextRetryDelay, asked of mechanisms constructed with   *)
(* several configurations, and the sleep of execute                        *)

\* the RetryConfig values the mechanisms are constructed with: positive
\* numbers, initialDelay below, at and above maxDelay, a backoffMultiplier
\* of 1 and of 2
RetryConfigs ==
  [initialDelay : 1..2, maxDelay : {1, 2, 4}, backoffMultiplier : 1..2]

\* new RetryMechanism(config).getNextRetryDelay(attempt)
getNextRetryDelay(config, attempt) ==
  /\ retryLast' = [config |-> config, attempt |-> attempt,
                   delay |-> delayWith(config, attempt)]
  /\ UNCHANGED <<svcVars, requests, cbVars, rlVars, retryRuns, queueVars>>

\* getNextRetryDelay and one caller of the service's RetryMechanism
NextDelay ==
  \/ \E config \in RetryConfigs, attempt \in 1..MaxAsked :
       getNextRetryDelay(config, attempt)
  \/ retryExecute(1)
  \/ \E v \in OpValues : retryOpReturns(1, v)
  \/ \E e \in OpErrors : retryOpThrows(1, e)
  \/ retryWake(1)
  \/ Tick

SpecDelay == Init /\ [][NextDelay]_vars

====
